---- MODULE Spec2Model ----
(***************************************************************************)
(* A model of tomless.py: TomlTokenizer (pattern based line tokenizer) and *)
(* TomlParser (stack driven state machine building a nested result tree).  *)
(*                                                                         *)
(* Text is a sequence of one-character strings.  Python values are records *)
(* of one shape, so that any two of them can be compared.  The result tree *)
(* (nested dicts) is the set of its nodes, each with its path from the     *)
(* root; a dict node has the value PyDict.                                 *)
(***************************************************************************)
EXTENDS Integers, Sequences, FiniteSets, TLC

VARIABLES
    returned,         \* what the earlier calls of parse_content gave, in order
    content,          \* the text handed to parse_content ("" when tokens are given)
    plain,            \* reference text: content before comments were inserted
    lines,            \* content.strip().splitlines()
    line_idx,         \* number of lines tokenize_content has consumed
    scanned,          \* the tokens tokenize_content has yielded
    message,          \* line number, offset and line of the lex error raised
    tokens,           \* TomlParser.tokens
    idx,              \* number of tokens the loop of parse has consumed
    pc,               \* position of the run
    error,            \* the exception that reached the caller, NoError if none
    status,           \* TomlParser._status
    status_history,   \* TomlParser.status_history
    section_history,  \* TomlParser.section_history
    token_history,    \* TomlParser.token_history
    value_stack,      \* TomlParser.value_stack
    context,          \* TomlParser.context
    result,           \* TomlParser.result
    var,              \* TomlParser.var
    section_name,     \* TomlParser._section_name
    fed               \* the tokens handed to a state's feed, in order

vars == <<returned, content, plain, lines, line_idx, scanned, message, tokens, idx, pc, error, status,
          status_history, section_history, token_history, value_stack,
          context, result, var, section_name, fed>>

----------------------------------------------------------------------------
(* Bounds of the model *)

MaxTokens == 6

----------------------------------------------------------------------------
(* Sequences *)

Last(s) == s[Len(s)]

Front(s) == SubSeq(s, 1, Len(s) - 1)

IsPrefix(a, b) == Len(a) <= Len(b) /\ SubSeq(b, 1, Len(a)) = a

RECURSIVE Reversed(_)
Reversed(s) == IF s = <<>> THEN <<>> ELSE Append(Reversed(Tail(s)), Head(s))

----------------------------------------------------------------------------
(* Python values *)

PyInt(n) == [k |-> "int", n |-> n, e |-> 0, s |-> <<>>, items |-> <<>>]

PyFloat(m, e) == [k |-> "float", n |-> m, e |-> e, s |-> <<>>, items |-> <<>>]

PyBool(b) == [k |-> "bool", n |-> IF b THEN 1 ELSE 0, e |-> 0, s |-> <<>>, items |-> <<>>]

PyStr(s) == [k |-> "str", n |-> 0, e |-> 0, s |-> s, items |-> <<>>]

PyList(items) == [k |-> "list", n |-> 0, e |-> 0, s |-> <<>>, items |-> items]

PyDict == [k |-> "dict", n |-> 0, e |-> 0, s |-> <<>>, items |-> <<>>]

\* a datetime with its offset from UTC in minutes
PyDatetime(year, month, day, hour, minute, second, tz) ==
    [k |-> "datetime", n |-> tz, e |-> 0, s |-> <<>>,
     items |-> <<PyInt(year), PyInt(month), PyInt(day), PyInt(hour),
                 PyInt(minute), PyInt(second)>>]

\* None where the code uses it as a name (self.var, self._section_name unset)
None == <<"None">>

\* TomlToken = namedtuple('TomlToken', 'type, val, row_no, col_no'); -1 is None
TomlToken(type, val, row_no, col_no) ==
    [type |-> type, val |-> val, row_no |-> row_no, col_no |-> col_no]

EofToken == TomlToken("eof", PyStr(<<>>), -1, -1)

NoError == "none"

NoMessage == [line_no |-> 0, offset |-> 0, line |-> <<>>]

ScalarTypes == {"int", "float", "string", "datetime", "bool"}

----------------------------------------------------------------------------
(* Text *)

Letters ==
    {"a", "b", "c", "d", "e", "f", "g", "h", "i", "j", "k", "l", "m",
     "n", "o", "p", "q", "r", "s", "t", "u", "v", "w", "x", "y", "z",
     "A", "B", "C", "D", "E", "F", "G", "H", "I", "J", "K", "L", "M",
     "N", "O", "P", "Q", "R", "S", "T", "U", "V", "W", "X", "Y", "Z"}

Digits == {"0", "1", "2", "3", "4", "5", "6", "7", "8", "9"}

\* the characters str.strip() removes and \s matches
Whitespace == {" ", "\t", "\n", "\r", "\f"}

IdStart == Letters \cup {"_"}

IdChars == Letters \cup Digits \cup {"_"}

\* the character at a 0-based offset, "" past the end
CharAt(line, offset) == IF offset < Len(line) THEN line[offset + 1] ELSE ""

\* Python's line[a:b] for 0 <= a
Slice(line, a, b) ==
    IF a >= b \/ a >= Len(line) THEN <<>>
    ELSE SubSeq(line, a + 1, IF b > Len(line) THEN Len(line) ELSE b)

RECURSIVE LStrip(_)
LStrip(s) == IF s # <<>> /\ Head(s) \in Whitespace THEN LStrip(Tail(s)) ELSE s

RECURSIVE RStrip(_)
RStrip(s) == IF s # <<>> /\ Last(s) \in Whitespace THEN RStrip(Front(s)) ELSE s

\* str.strip()
Strip(s) == RStrip(LStrip(s))

\* str.splitlines(): a line ends at \n, \r or \r\n; no empty last line
RECURSIVE SplitLines(_, _)
SplitLines(s, cur) ==
    IF s = <<>> THEN (IF cur = <<>> THEN <<>> ELSE <<cur>>)
    ELSE IF Head(s) = "\r" /\ Len(s) > 1 /\ s[2] = "\n"
    THEN <<cur>> \o SplitLines(Tail(Tail(s)), <<>>)
    ELSE IF Head(s) \in {"\n", "\r"} THEN <<cur>> \o SplitLines(Tail(s), <<>>)
    ELSE SplitLines(Tail(s), Append(cur, Head(s)))

\* number of characters of a class from an offset on
RECURSIVE RunLen(_, _, _)
RunLen(line, offset, class) ==
    IF CharAt(line, offset) \in class THEN 1 + RunLen(line, offset + 1, class) ELSE 0

\* str.replace(src, dst) for a src of two characters and a dst of one
RECURSIVE Replace2(_, _, _)
Replace2(s, src, dst) ==
    IF Len(s) < 2 THEN s
    ELSE IF SubSeq(s, 1, 2) = src THEN <<dst>> \o Replace2(SubSeq(s, 3, Len(s)), src, dst)
    ELSE <<Head(s)>> \o Replace2(Tail(s), src, dst)

\* unescape: \t, then \n, then \r
unescape(s) ==
    Replace2(Replace2(Replace2(s, <<"\\", "t">>, "\t"), <<"\\", "n">>, "\n"),
             <<"\\", "r">>, "\r")

DigitVal(c) ==
    CASE c = "0" -> 0 [] c = "1" -> 1 [] c = "2" -> 2 [] c = "3" -> 3 [] c = "4" -> 4
      [] c = "5" -> 5 [] c = "6" -> 6 [] c = "7" -> 7 [] c = "8" -> 8 [] c = "9" -> 9

\* int(x) for a string of digits
RECURSIVE ToInt(_)
ToInt(s) == IF s = <<>> THEN 0 ELSE 10 * ToInt(Front(s)) + DigitVal(Last(s))

RECURSIVE StripZeros(_)
StripZeros(s) == IF s # <<>> /\ Last(s) = "0" THEN StripZeros(Front(s)) ELSE s

\* float(x) for digits "." digits: the number ToInt(digits) / 10^e, e minimal
ToFloat(s) ==
    LET n == RunLen(s, 0, Digits)
        frac == StripZeros(Slice(s, n + 1, Len(s)))
    IN  PyFloat(ToInt(Slice(s, 0, n) \o frac), Len(frac))

----------------------------------------------------------------------------
(* TomlTokenizer.PATTERNS: the length of the match at an offset, 0 for none *)

StartsWith(line, offset, word) == Slice(line, offset, offset + Len(word)) = word

MatchBool(line, offset) ==
    IF StartsWith(line, offset, <<"t", "r", "u", "e">>) THEN 4
    ELSE IF StartsWith(line, offset, <<"f", "a", "l", "s", "e">>) THEN 5
    ELSE 0

MatchComment(line, offset) ==
    IF CharAt(line, offset) = "#" THEN Len(line) - offset ELSE 0

MatchId(line, offset) ==
    IF CharAt(line, offset) \in IdStart
    THEN 1 + RunLen(line, offset + 1, IdChars)
    ELSE 0

\* (\.id)* from an offset on
RECURSIVE DottedLen(_, _)
DottedLen(line, offset) ==
    IF CharAt(line, offset) = "." /\ MatchId(line, offset + 1) > 0
    THEN LET n == 1 + MatchId(line, offset + 1)
         IN  n + DottedLen(line, offset + n)
    ELSE 0

MatchSection(line, offset) ==
    IF CharAt(line, offset) = "[" /\ MatchId(line, offset + 1) > 0
    THEN LET n == 1 + MatchId(line, offset + 1)
             m == n + DottedLen(line, offset + n)
         IN  IF CharAt(line, offset + m) = "]" THEN m + 1 ELSE 0
    ELSE 0

MatchString(line, offset) ==
    IF CharAt(line, offset) = "\""
    THEN LET n == RunLen(line, offset + 1, {line[i] : i \in 1..Len(line)} \ {"\""})
         IN  IF CharAt(line, offset + 1 + n) = "\"" THEN n + 2 ELSE 0
    ELSE 0

MatchWhitespace(line, offset) == RunLen(line, offset, Whitespace)

MatchLiteral(line, offset) ==
    IF CharAt(line, offset) \in {",", "[", "]", "="} THEN 1 ELSE 0

\* the characters of a shape: "d" stands for a digit, any other for itself
RECURSIVE FitsShape(_, _, _)
FitsShape(line, offset, shape) ==
    shape = <<>>
    \/ /\ IF Head(shape) = "d" THEN CharAt(line, offset) \in Digits
          ELSE CharAt(line, offset) = Head(shape)
       /\ FitsShape(line, offset + 1, Tail(shape))

DateTimeShape ==
    <<"d", "d", "d", "d", "-", "d", "d", "-", "d", "d", "T",
      "d", "d", ":", "d", "d", ":", "d", "d">>

MatchDatetime(line, offset) ==
    IF ~ FitsShape(line, offset, DateTimeShape) THEN 0
    ELSE IF CharAt(line, offset + 19) \in {"-", "+"}
            /\ FitsShape(line, offset + 20, <<"d", "d", ":", "d", "d">>) THEN 25
    ELSE IF CharAt(line, offset + 19) \in {"-", "+"}
            /\ FitsShape(line, offset + 20, <<"d", "d", "d", "d">>) THEN 24
    ELSE IF CharAt(line, offset + 19) = "Z" THEN 20
    ELSE 0

MatchFloat(line, offset) ==
    LET n == RunLen(line, offset, Digits)
        m == RunLen(line, offset + n + 1, Digits)
    IN  IF n > 0 /\ CharAt(line, offset + n) = "." /\ m > 0 THEN n + 1 + m ELSE 0

MatchInt(line, offset) == RunLen(line, offset, Digits)

PatternTypes ==
    <<"bool", "comment", "id", "section", "string", "whitespace", "literal",
      "datetime", "float", "int">>

\* pattern.match(line, offset) of the pattern of a type
Match(type, line, offset) ==
    CASE type = "bool" -> MatchBool(line, offset)
      [] type = "comment" -> MatchComment(line, offset)
      [] type = "id" -> MatchId(line, offset)
      [] type = "section" -> MatchSection(line, offset)
      [] type = "string" -> MatchString(line, offset)
      [] type = "whitespace" -> MatchWhitespace(line, offset)
      [] type = "literal" -> MatchLiteral(line, offset)
      [] type = "datetime" -> MatchDatetime(line, offset)
      [] type = "float" -> MatchFloat(line, offset)
      [] type = "int" -> MatchInt(line, offset)

DaysIn(year, month) ==
    IF month = 2
    THEN (IF year % 4 = 0 /\ (year % 100 # 0 \/ year % 400 = 0) THEN 29 ELSE 28)
    ELSE IF month \in {4, 6, 9, 11} THEN 30 ELSE 31

\* dateutil's parse on a match of the datetime pattern: the fields, the offset
\* from UTC in minutes; ok is FALSE where it raises ValueError
ParseDatetime(x) ==
    LET num(a, b) == ToInt(Slice(x, a, b))
        year == num(0, 4)
        month == num(5, 7)
        day == num(8, 10)
        sign == IF CharAt(x, 19) = "-" THEN -1 ELSE 1
        colon == IF CharAt(x, 22) = ":" THEN 1 ELSE 0
        tz == IF CharAt(x, 19) = "Z" THEN 0
              ELSE sign * (60 * num(20, 22) + num(22 + colon, 24 + colon))
        ok == /\ year >= 1 /\ month \in 1..12 /\ day >= 1 /\ day <= DaysIn(year, month)
              /\ num(11, 13) <= 23 /\ num(14, 16) <= 59 /\ num(17, 19) <= 59
              /\ tz > -1440 /\ tz < 1440
    IN  [ok |-> ok,
         val |-> PyDatetime(year, month, day, num(11, 13), num(14, 16),
                            num(17, 19), tz)]

\* the processor of a pattern applied to the matched text
Process(type, x) ==
    CASE type = "bool" -> PyBool(x = <<"t", "r", "u", "e">>)
      [] type = "comment" -> PyStr(Strip(Tail(x)))
      [] type = "section" -> PyStr(Strip(Slice(x, 1, Len(x) - 1)))
      [] type = "string" -> PyStr(unescape(Strip(Slice(x, 1, Len(x) - 1))))
      [] type = "datetime" -> ParseDatetime(x).val
      [] type = "float" -> ToFloat(x)
      [] type = "int" -> PyInt(ToInt(x))
      [] OTHER -> PyStr(x)

ProcessRaises(type, x) == type = "datetime" /\ ~ ParseDatetime(x).ok

\* the token tokenize_line yields for a match
TokenOf(type, x, line_no, offset) ==
    TomlToken(IF type = "literal" THEN x[1] ELSE type, Process(type, x),
              line_no, offset)

\* tokenize_line, the for loop from pattern i on: every pattern is tried once,
\* at the offset the matches before it have left; yields the offset, the
\* tokens and the error
RECURSIVE ScanPatterns(_, _, _, _, _)
ScanPatterns(line, line_no, offset, i, toks) ==
    IF i > Len(PatternTypes) THEN [offset |-> offset, toks |-> toks, err |-> NoError]
    ELSE LET type == PatternTypes[i]
             n == Match(type, line, offset)
             x == Slice(line, offset, offset + n)
         IN  IF n = 0 THEN ScanPatterns(line, line_no, offset, i + 1, toks)
             ELSE IF ProcessRaises(type, x)
             THEN [offset |-> offset, toks |-> toks, err |-> "ValueError"]
             ELSE ScanPatterns(line, line_no, offset + n, i + 1,
                      IF type = "whitespace" THEN toks
                      ELSE Append(toks, TokenOf(type, x, line_no, offset)))

\* tokenize_line, the while loop, on the stripped line
RECURSIVE ScanLine(_, _, _, _)
ScanLine(line, line_no, offset, toks) ==
    IF offset >= Len(line) THEN [offset |-> offset, toks |-> toks, err |-> NoError]
    ELSE LET r == ScanPatterns(line, line_no, offset, 1, toks)
         IN  IF r.err # NoError THEN r
             ELSE IF r.offset = offset
             THEN [offset |-> offset, toks |-> r.toks, err |-> "LexError"]
             ELSE ScanLine(line, line_no, r.offset, r.toks)

\* TomlTokenizer.tokenize_line, run to its end
tokenize_line(line, line_no) == ScanLine(Strip(line), line_no, 0, <<>>)

\* the lines tokenize_content enumerates
ContentLines(text) == SplitLines(Strip(text), <<>>)

----------------------------------------------------------------------------
(* The parser object *)

Parser == [status |-> status, status_history |-> status_history,
           section_history |-> section_history, token_history |-> token_history,
           value_stack |-> value_stack, context |-> context, result |-> result,
           var |-> var, section_name |-> section_name, raised |-> error,
           fed |-> fed]

\* TomlParser.__init__; _status, var and _section_name are not set yet
NewParser == [status |-> "none", status_history |-> <<>>,
              section_history |-> <<>>, token_history |-> <<>>,
              value_stack |-> <<>>, context |-> <<>>, result |-> {},
              var |-> None, section_name |-> None, raised |-> NoError,
              fed |-> <<>>]

\* an object whose result and context are those of the object built before
InstanceShared(old) ==
    [NewParser EXCEPT !.result = old.result, !.context = old.context]

\* cls(tokens): a new object; __init__ gives it containers of its own, and
\* nothing of the object of an earlier call is in it
Instance(old) == NewParser

Raise(p, exc) == [p EXCEPT !.raised = exc]

\* a split that keeps the dotted name whole
SplitDotWhole(s, cur) == <<cur \o s>>

\* str.split('.')
RECURSIVE SplitDot(_, _)
SplitDot(s, cur) ==
    IF s = <<>> THEN <<cur>>
    ELSE IF Head(s) = "." THEN <<cur>> \o SplitDot(Tail(s), <<>>)
    ELSE SplitDot(Tail(s), Append(cur, Head(s)))

NodeAt(res, path) == {n \in res : n.path = path}

IsDictAt(res, path) ==
    path = <<>> \/ \E n \in NodeAt(res, path) : n.val = PyDict

\* an update that keeps the entries the dict already has
DictUpdateKeep(res, path, ctx) ==
    res \cup {[path |-> Append(path, key), val |-> ctx[key]] :
                 key \in {k \in DOMAIN ctx : NodeAt(res, Append(path, k)) = {}}}

\* parent.update(self.context), parent being the dict at path
DictUpdate(res, path, ctx) ==
    {n \in res : ~ \E key \in DOMAIN ctx : IsPrefix(Append(path, key), n.path)}
    \cup {[path |-> Append(path, key), val |-> ctx[key]] : key \in DOMAIN ctx}

\* the loop of sync_result: parent.setdefault(part, {}); parent = parent[part]
\* yields <<result, path of parent, ok>>; ok is FALSE when parent is no dict
RECURSIVE Descend(_, _, _)
Descend(res, path, parts) ==
    IF parts = <<>> THEN <<res, path, TRUE>>
    ELSE IF ~ IsDictAt(res, path) THEN <<res, path, FALSE>>
    ELSE LET child == Append(path, Head(parts))
             res1 == IF NodeAt(res, child) = {}
                     THEN res \cup {[path |-> child, val |-> PyDict]}
                     ELSE res
         IN  Descend(res1, child, Tail(parts))

\* a merge that leaves the merged assignments pending
sync_result_kept(p, name) ==
    IF p.raised # NoError THEN p
    ELSE IF DOMAIN p.context = {} THEN p
    ELSE IF name # None /\ name # <<>>
    THEN LET d == Descend(p.result, <<>>, SplitDot(name, <<>>))
         IN  IF d[3] /\ IsDictAt(d[1], d[2])
             THEN [p EXCEPT !.result = DictUpdate(d[1], d[2], p.context)]
             ELSE Raise([p EXCEPT !.result = d[1]], "AttributeError")
    ELSE [p EXCEPT !.result = DictUpdate(p.result, <<>>, p.context)]

\* StatusBuildSection.sync_result
sync_result(p, name) ==
    IF p.raised # NoError THEN p
    ELSE IF DOMAIN p.context = {} THEN p
    ELSE IF name # None /\ name # <<>>
    THEN LET d == Descend(p.result, <<>>, SplitDot(name, <<>>))
         IN  IF d[3] /\ IsDictAt(d[1], d[2])
             THEN [p EXCEPT !.result = DictUpdate(d[1], d[2], p.context),
                            !.context = <<>>]
             ELSE Raise([p EXCEPT !.result = d[1]], "AttributeError")
    ELSE [p EXCEPT !.result = DictUpdate(p.result, <<>>, p.context),
                   !.context = <<>>]

\* the loop of combine_values(stop_type): <<vals, rest of the stack, ok>>
RECURSIVE PopUntil(_, _, _)
PopUntil(stack, stop_type, vals) ==
    IF stack = <<>> THEN <<vals, stack, FALSE>>
    ELSE IF Last(stack).type = stop_type THEN <<vals, Front(stack), TRUE>>
    ELSE PopUntil(Front(stack), stop_type, Append(vals, Last(stack).val))

\* combine_values without reversed(): the list in the order of the pops
combine_values_popped(p, stop_type) ==
    IF stop_type # ""
    THEN LET r == PopUntil(p.value_stack, stop_type, <<>>)
         IN  IF r[3]
             THEN <<[p EXCEPT !.value_stack = r[2]],
                    TomlToken("list", PyList(r[1]), -1, -1)>>
             ELSE <<Raise([p EXCEPT !.value_stack = r[2]], "IndexError"), EofToken>>
    ELSE IF p.value_stack = <<>>
    THEN <<Raise(p, "IndexError"), EofToken>>
    ELSE <<[p EXCEPT !.value_stack = Front(p.value_stack)], Last(p.value_stack)>>

\* TomlParser.combine_values: <<parser, returned token>>; stop_type "" is None
combine_values(p, stop_type) ==
    IF stop_type # ""
    THEN LET r == PopUntil(p.value_stack, stop_type, <<>>)
         IN  IF r[3]
             THEN <<[p EXCEPT !.value_stack = r[2]],
                    TomlToken("list", PyList(Reversed(r[1])), -1, -1)>>
             ELSE <<Raise([p EXCEPT !.value_stack = r[2]], "IndexError"), EofToken>>
    ELSE IF p.value_stack = <<>>
    THEN <<Raise(p, "IndexError"), EofToken>>
    ELSE <<[p EXCEPT !.value_stack = Front(p.value_stack)], Last(p.value_stack)>>

\* an entry that merges only when a header names a new section
on_enter_section_lazy(p, name) ==
    LET p1 == IF name = None THEN p ELSE sync_result(p, p.section_name)
        pop == name = None /\ p1.section_history # <<>>
        nm == IF pop THEN Last(p1.section_history) ELSE name
        sh == IF pop THEN Front(p1.section_history) ELSE p1.section_history
    IN  IF p1.raised # NoError THEN p1
        ELSE [p1 EXCEPT !.section_history = Append(sh, nm), !.section_name = nm]

\* StatusBuildSection._on_enter(name); name = None when called without one
on_enter_section(p, name) ==
    LET p1 == sync_result(p, p.section_name)
        pop == name = None /\ p1.section_history # <<>>
        nm == IF pop THEN Last(p1.section_history) ELSE name
        sh == IF pop THEN Front(p1.section_history) ELSE p1.section_history
    IN  IF p1.raised # NoError THEN p1
        ELSE [p1 EXCEPT !.section_history = Append(sh, nm), !.section_name = nm]

\* an entry that records the bracket but pushes no sentinel
on_enter_list_unmarked(p, hasToken, token) ==
    IF ~ hasToken
    THEN IF p.token_history # <<>>
         THEN [p EXCEPT !.token_history = Front(p.token_history)]
         ELSE p
    ELSE [p EXCEPT !.token_history = Append(p.token_history, token)]

\* StatusBuildList._on_enter(token); hasToken = FALSE when called without one
on_enter_list(p, hasToken, token) ==
    IF ~ hasToken
    THEN IF p.token_history # <<>>
         THEN [p EXCEPT !.token_history = Front(p.token_history)]
         ELSE p
    ELSE [p EXCEPT !.token_history = Append(p.token_history, token),
                   !.value_stack = Append(p.value_stack, token)]

\* TomlParser.enter(status, *args); arg is a section name or a token
enter(p, st, hasArg, arg) ==
    IF p.raised # NoError THEN p
    ELSE LET p1 == [p EXCEPT !.status = st,
                             !.status_history = Append(p.status_history, st)]
         IN  CASE st = "StatusBuildSection" ->
                      on_enter_section(p1, IF hasArg THEN arg ELSE None)
               [] st = "StatusBuildValue" -> p1
               [] st = "StatusBuildList" -> on_enter_list(p1, hasArg, arg)

\* StatusBuildValue._on_exit
on_exit_value(p) ==
    IF p.value_stack # <<>>
    THEN LET c == combine_values(p, "")
         IN  IF c[1].raised # NoError THEN c[1]
             ELSE [c[1] EXCEPT !.context = (p.var :> c[2].val) @@ c[1].context]
    ELSE p

\* StatusBuildList._on_exit
on_exit_list(p) ==
    LET c == combine_values(p, "[")
    IN  IF c[1].raised # NoError THEN c[1]
        ELSE [c[1] EXCEPT !.value_stack = Append(c[1].value_stack, c[2])]

\* self._on_exit(), dispatched on self._status
on_exit(p) ==
    CASE p.status = "StatusBuildSection" -> sync_result(p, p.section_name)
      [] p.status = "StatusBuildValue" -> on_exit_value(p)
      [] p.status = "StatusBuildList" -> on_exit_list(p)

\* an exit that resumes the state beneath without pushing it back
exit_unwinding(p) ==
    IF p.raised # NoError THEN p
    ELSE IF p.status_history = <<>> THEN Raise(p, "IndexError")
    ELSE LET p1 == on_exit([p EXCEPT !.status_history = Front(p.status_history)])
         IN  IF p1.raised # NoError THEN p1
             ELSE IF p1.status_history # <<>>
             THEN [p1 EXCEPT !.status_history = Front(p1.status_history),
                             !.status = Last(p1.status_history)]
             ELSE p1

\* TomlParser.exit
exit(p) ==
    IF p.raised # NoError THEN p
    ELSE IF p.status_history = <<>> THEN Raise(p, "IndexError")
    ELSE LET p1 == on_exit([p EXCEPT !.status_history = Front(p.status_history)])
         IN  IF p1.raised # NoError THEN p1
             ELSE IF p1.status_history # <<>>
             THEN enter([p1 EXCEPT !.status_history = Front(p1.status_history)],
                        Last(p1.status_history), FALSE, None)
             ELSE p1

\* StatusBuildSection.feed
feed_section(p, token) ==
    CASE token.type = "id" -> [p EXCEPT !.var = token.val.s]
      [] token.type = "=" -> enter(p, "StatusBuildValue", FALSE, None)
      [] token.type = "section" -> enter(p, "StatusBuildSection", TRUE, token.val.s)
      [] OTHER -> p

\* a list that closes at any token it does not know
feed_list_closing(p, token) ==
    CASE token.type = "," -> p
      [] token.type = "[" -> enter(p, "StatusBuildList", TRUE, token)
      [] token.type \in ScalarTypes ->
             [p EXCEPT !.value_stack = Append(p.value_stack, token)]
      [] OTHER -> exit(p)

\* StatusBuildList.feed
feed_list(p, token) ==
    CASE token.type = "," -> p
      [] token.type = "[" -> enter(p, "StatusBuildList", TRUE, token)
      [] token.type = "]" -> exit(p)
      [] token.type \in ScalarTypes ->
             [p EXCEPT !.value_stack = Append(p.value_stack, token)]
      [] OTHER -> p

\* self.feed(token), dispatched on self._status (StatusBuildValue.feed inline)
RECURSIVE feed(_, _)
feed(p, token) ==
    IF p.raised # NoError THEN p
    ELSE CASE p.status = "StatusBuildSection" -> feed_section(p, token)
           [] p.status = "StatusBuildList" -> feed_list(p, token)
           [] p.status = "StatusBuildValue" ->
                  CASE token.type \in {"id", "]", "section", "eof"} ->
                           LET p1 == exit(p)
                           IN  IF token.type \in {"id", "section"}
                               THEN feed(p1, token)
                               ELSE p1
                    [] token.type \in ScalarTypes ->
                           [p EXCEPT !.value_stack = Append(p.value_stack, token)]
                    [] token.type = "[" -> enter(p, "StatusBuildList", TRUE, token)
                    [] OTHER -> p

\* a loop that feeds every token, comments too
feed_token_all(p, token) ==
    feed([p EXCEPT !.fed = Append(p.fed, token)], token)

\* one iteration of the loop of parse: comments are skipped, the rest is fed
feed_token(p, token) ==
    IF token.type = "comment" THEN p
    ELSE feed([p EXCEPT !.fed = Append(p.fed, token)], token)

----------------------------------------------------------------------------
(* Actions of the parser *)

SetParser(q) ==
    /\ status' = q.status
    /\ status_history' = q.status_history
    /\ section_history' = q.section_history
    /\ token_history' = q.token_history
    /\ value_stack' = q.value_stack
    /\ context' = q.context
    /\ result' = q.result
    /\ var' = q.var
    /\ section_name' = q.section_name
    /\ error' = q.raised
    /\ fed' = q.fed

\* parse, up to its loop: self.enter('StatusBuildSection', '')
ParseBegin ==
    /\ pc = "constructed"
    /\ LET q == enter(Parser, "StatusBuildSection", TRUE, <<>>)
       IN  /\ SetParser(q)
           /\ pc' = IF q.raised # NoError THEN "raised" ELSE "loop"
    /\ UNCHANGED <<returned, content, plain, lines, line_idx, scanned, message, tokens, idx>>

\* one iteration of the loop of parse, on the next token of self.tokens
FeedNext ==
    /\ pc = "loop"
    /\ idx < Len(tokens)
    /\ LET q == feed_token(Parser, tokens[idx + 1])
       IN  /\ SetParser(q)
           /\ pc' = IF q.raised # NoError THEN "raised" ELSE "loop"
    /\ idx' = idx + 1
    /\ UNCHANGED <<returned, content, plain, lines, line_idx, scanned, message, tokens>>

\* parse, after its loop: self.feed(eof)
FeedEof ==
    /\ pc = "loop"
    /\ idx = Len(tokens)
    /\ LET q == feed_token(Parser, EofToken)
       IN  /\ SetParser(q)
           /\ pc' = IF q.raised # NoError THEN "raised" ELSE "eof"
    /\ UNCHANGED <<returned, content, plain, lines, line_idx, scanned, message, tokens, idx>>

\* parse, the end: self.exit(); return self.result
ParseEnd ==
    /\ pc = "eof"
    /\ LET q == exit(Parser)
       IN  /\ SetParser(q)
           /\ pc' = IF q.raised # NoError THEN "raised" ELSE "done"
    /\ UNCHANGED <<returned, content, plain, lines, line_idx, scanned, message, tokens, idx>>

----------------------------------------------------------------------------
(* Token streams: the parser on every token sequence over a small alphabet *)

Tok(type, val) == TomlToken(type, val, 1, 0)

TokId(s) == Tok("id", PyStr(s))

TokSection(s) == Tok("section", PyStr(s))

TokLit(c) == Tok(c, PyStr(<<c>>))

TokInt(n) == Tok("int", PyInt(n))

TokenAlphabet ==
    {TokId(<<"a">>), TokId(<<"b">>), TokLit("="), TokInt(1),
     TokSection(<<"a">>), TokSection(<<"a", ".", "b">>),
     TokLit("["), TokLit("]")}

InitParser ==
    /\ status = NewParser.status
    /\ status_history = NewParser.status_history
    /\ section_history = NewParser.section_history
    /\ token_history = NewParser.token_history
    /\ value_stack = NewParser.value_stack
    /\ context = NewParser.context
    /\ result = NewParser.result
    /\ var = NewParser.var
    /\ section_name = NewParser.section_name
    /\ error = NoError
    /\ fed = <<>>

\* TomlParser(tokens) for a token list that is revealed as the loop reads it
Init ==
    /\ content = <<>>
    /\ plain = <<>>
    /\ returned = <<>>
    /\ lines = <<>>
    /\ line_idx = 0
    /\ scanned = <<>>
    /\ message = NoMessage
    /\ tokens = <<>>
    /\ idx = 0
    /\ pc = "constructed"
    /\ InitParser

\* the list of tokens has one more element, which the loop of parse reads
FeedUpTo(token, max) ==
    /\ pc = "loop"
    /\ idx = Len(tokens)
    /\ Len(tokens) < max
    /\ LET q == feed_token(Parser, token)
       IN  /\ SetParser(q)
           /\ pc' = IF q.raised # NoError THEN "raised" ELSE "loop"
    /\ tokens' = Append(tokens, token)
    /\ idx' = idx + 1
    /\ UNCHANGED <<returned, content, plain, lines, line_idx, scanned, message>>

Feed(token) == FeedUpTo(token, MaxTokens)

Next ==
    \/ ParseBegin
    \/ \E token \in TokenAlphabet : Feed(token)
    \/ FeedEof
    \/ ParseEnd

Spec == Init /\ [][Next]_vars

\* TomlParser(toks) for a token list given as a whole
InitTokens(tokenLists) ==
    /\ content = <<>>
    /\ plain = <<>>
    /\ returned = <<>>
    /\ lines = <<>>
    /\ line_idx = 0
    /\ scanned = <<>>
    /\ message = NoMessage
    /\ tokens \in tokenLists
    /\ idx = 0
    /\ pc = "constructed"
    /\ InitParser

----------------------------------------------------------------------------
(* Actions of the tokenizer and of parse_content *)

parserVars == <<status, status_history, section_history, token_history,
                value_stack, context, result, var, section_name, fed>>

\* tokenize_content, up to its loop: content.strip().splitlines()
TokenizeBegin ==
    /\ pc = "called"
    /\ lines' = ContentLines(content)
    /\ pc' = "tokenize"
    /\ UNCHANGED <<returned, content, plain, line_idx, scanned, message, tokens, idx, error>>
    /\ UNCHANGED parserVars

\* tokenize_content, one iteration: tokenize_line on the next line
TokenizeLine ==
    /\ pc = "tokenize"
    /\ line_idx < Len(lines)
    /\ LET r == tokenize_line(lines[line_idx + 1], line_idx + 1)
       IN  /\ scanned' = scanned \o r.toks
           /\ error' = r.err
           /\ pc' = IF r.err # NoError THEN "raised" ELSE "tokenize"
           /\ message' = IF r.err = "LexError"
                         THEN [line_no |-> line_idx + 1, offset |-> r.offset,
                               line |-> Strip(lines[line_idx + 1])]
                         ELSE message
    /\ line_idx' = line_idx + 1
    /\ UNCHANGED <<returned, content, plain, lines, tokens, idx>>
    /\ UNCHANGED parserVars

\* a generator read lazily: the parser is built from the tokens read so far
ExhaustedLazy == TRUE

\* list(...) has read the generator to its end
Exhausted == line_idx = Len(lines)

\* parse_content: cls(list(TomlTokenizer.tokenize_content(content)))
Construct ==
    /\ pc = "tokenize"
    /\ Exhausted
    /\ tokens' = scanned
    /\ SetParser(Instance(Parser))
    /\ pc' = "constructed"
    /\ UNCHANGED <<returned, content, plain, lines, line_idx, scanned, message, idx>>

NextText ==
    \/ TokenizeBegin
    \/ TokenizeLine
    \/ Construct
    \/ ParseBegin
    \/ FeedNext
    \/ FeedEof
    \/ ParseEnd

\* parse_content(content) is called
InitCall(texts) ==
    /\ content \in texts
    /\ plain = content
    /\ returned = <<>>
    /\ lines = <<>>
    /\ line_idx = 0
    /\ scanned = <<>>
    /\ message = NoMessage
    /\ tokens = <<>>
    /\ idx = 0
    /\ pc = "called"
    /\ InitParser

----------------------------------------------------------------------------
(* parse_content as a function of the text *)

RECURSIVE TokenizeLines(_, _, _)
TokenizeLines(ls, i, toks) ==
    IF i > Len(ls) THEN [toks |-> toks, err |-> NoError]
    ELSE LET r == tokenize_line(ls[i], i)
         IN  IF r.err # NoError THEN [toks |-> toks \o r.toks, err |-> r.err]
             ELSE TokenizeLines(ls, i + 1, toks \o r.toks)

\* list(TomlTokenizer.tokenize_content(text))
tokenize_content(text) == TokenizeLines(ContentLines(text), 1, <<>>)

RECURSIVE FeedAll(_, _)
FeedAll(p, toks) ==
    IF toks = <<>> THEN p ELSE FeedAll(feed_token(p, Head(toks)), Tail(toks))

\* TomlParser(toks).parse(): the parser when parse returns or raises
parse(toks) ==
    exit(feed_token(FeedAll(enter(NewParser, "StatusBuildSection", TRUE, <<>>), toks),
                    EofToken))

\* what the caller of parse_content gets: the exception or the result
parse_content(text) ==
    LET t == tokenize_content(text)
        p == parse(t.toks)
    IN  IF t.err # NoError THEN [raised |-> t.err, result |-> {}]
        ELSE IF p.raised # NoError THEN [raised |-> p.raised, result |-> {}]
        ELSE [raised |-> NoError, result |-> p.result]

\* what the caller has got when the run is over
Outcome ==
    [raised |-> error, result |-> IF pc = "done" THEN result ELSE {}]

----------------------------------------------------------------------------
(* Texts over a small alphabet: lex errors *)

MaxChars == 5

TextAlphabet == {"a", "=", "1", "@", " ", "\n"}

TextsUpTo(n, alphabet) == UNION {[1..k -> alphabet] : k \in 0..n}

InitText == InitCall(TextsUpTo(MaxChars, TextAlphabet))

SpecText == InitText /\ [][NextText]_vars

----------------------------------------------------------------------------
(* Documents: token lists that are sequences of assignments and headers *)

MaxStmts == 4

Keys == {<<"a">>, <<"b">>}

SectionNames == {<<"a">>, <<"a", ".", "b">>}

\* a statement is an assignment key = int or a section header
Statements ==
    {[kind |-> "assign", name |-> key, val |-> PyInt(n)] : key \in Keys, n \in {1, 2}}
    \cup {[kind |-> "header", name |-> name, val |-> PyInt(0)] : name \in SectionNames}

\* the tokens of a statement written on line row_no: `key = n` or `[name]`
StmtTokens(st, row_no) ==
    IF st.kind = "header"
    THEN <<TomlToken("section", PyStr(st.name), row_no, 0)>>
    ELSE <<TomlToken("id", PyStr(st.name), row_no, 0),
           TomlToken("=", PyStr(<<"=">>), row_no, Len(st.name) + 1),
           TomlToken("int", st.val, row_no, Len(st.name) + 3)>>

RECURSIVE DocTokens(_, _)
DocTokens(doc, row_no) ==
    IF doc = <<>> THEN <<>>
    ELSE StmtTokens(Head(doc), row_no) \o DocTokens(Tail(doc), row_no + 1)

DocsUpTo(n) == UNION {[1..k -> Statements] : k \in 0..n}

InitDoc == InitTokens({DocTokens(doc, 1) : doc \in DocsUpTo(MaxStmts)})

NextGiven ==
    \/ ParseBegin
    \/ FeedNext
    \/ FeedEof
    \/ ParseEnd

SpecDoc == InitDoc /\ [][NextGiven]_vars

\* the statements a token list is made of; kind "bad" where it is no document
RECURSIVE StmtsOf(_)
StmtsOf(toks) ==
    IF toks = <<>> THEN <<>>
    ELSE IF Head(toks).type = "section"
    THEN <<[kind |-> "header", name |-> Head(toks).val.s, val |-> PyInt(0)]>>
         \o StmtsOf(Tail(toks))
    ELSE IF /\ Len(toks) >= 3 /\ toks[1].type = "id" /\ toks[2].type = "="
            /\ toks[3].type \in ScalarTypes
    THEN <<[kind |-> "assign", name |-> toks[1].val.s, val |-> toks[3].val]>>
         \o StmtsOf(SubSeq(toks, 4, Len(toks)))
    ELSE <<[kind |-> "bad", name |-> <<>>, val |-> PyInt(0)]>>

Doc == StmtsOf(tokens)

WellFormed(doc) == \A i \in 1..Len(doc) : doc[i].kind # "bad"

\* the components of a dotted name: its maximal runs without a dot
Components(name) ==
    LET dots == {i \in 1..Len(name) : name[i] = "."}
        cut(k) == IF k = 0 THEN 0
                  ELSE IF k > Cardinality(dots) THEN Len(name) + 1
                  ELSE CHOOSE i \in dots : Cardinality({j \in dots : j < i}) = k - 1
    IN  [k \in 1..(Cardinality(dots) + 1) |-> SubSeq(name, cut(k - 1) + 1, cut(k) - 1)]

Headers(doc) == {i \in 1..Len(doc) : doc[i].kind = "header"}

Assignments(doc) == {i \in 1..Len(doc) : doc[i].kind = "assign"}

\* the section path in force at statement i: that of the last header before
\* it, the root before the first header
SectionPathAt(doc, i) ==
    LET before == {j \in Headers(doc) : j < i}
    IN  IF before = {} THEN <<>>
        ELSE Components(doc[CHOOSE j \in before : \A h \in before : h <= j].name)

\* the path assignment i writes to
PathOf(doc, i) == Append(SectionPathAt(doc, i), doc[i].name)

\* no later assignment writes to the path of assignment i or to a prefix of it
Stands(doc, i) ==
    \A j \in Assignments(doc) : j > i => ~ IsPrefix(PathOf(doc, j), PathOf(doc, i))

Values(res) == {n \in res : n.val # PyDict}

----------------------------------------------------------------------------
(* List literals: `a =` followed by every token sequence over a list alphabet *)

MaxListTokens == 7

ListAlphabet == {TokLit("["), TokLit("]"), TokLit(","), TokInt(1), TokInt(2)}

AssignPrefix == <<TokId(<<"a">>), TokLit("=")>>

InitList == InitTokens({AssignPrefix})

FeedList(token) == FeedUpTo(token, Len(AssignPrefix) + MaxListTokens)

NextList ==
    \/ ParseBegin
    \/ FeedNext
    \/ \E token \in ListAlphabet : FeedList(token)
    \/ FeedEof
    \/ ParseEnd

SpecList == InitList /\ [][NextList]_vars

\* the tokens after `a =`
ListBody == SubSeq(tokens, Len(AssignPrefix) + 1, Len(tokens))

\* a list literal read by its grammar, `[` (value (`,` value)* `,`?)? `]`, a
\* value being a scalar or a list: whether toks has one from i on, the nested
\* structure it denotes and the index after it
RECURSIVE ReadValue(_, _), ReadItems(_, _, _, _)
ReadValue(toks, i) ==
    IF i > Len(toks) THEN [ok |-> FALSE, val |-> PyList(<<>>), next |-> i]
    ELSE IF toks[i].type \in ScalarTypes THEN [ok |-> TRUE, val |-> toks[i].val, next |-> i + 1]
    ELSE IF toks[i].type = "[" THEN ReadItems(toks, i + 1, <<>>, "open")
    ELSE [ok |-> FALSE, val |-> PyList(<<>>), next |-> i]

ReadItems(toks, i, items, after) ==
    IF i > Len(toks) THEN [ok |-> FALSE, val |-> PyList(items), next |-> i]
    ELSE IF toks[i].type = "]" THEN [ok |-> TRUE, val |-> PyList(items), next |-> i + 1]
    ELSE IF toks[i].type = ","
    THEN IF after = "value" THEN ReadItems(toks, i + 1, items, "comma")
         ELSE [ok |-> FALSE, val |-> PyList(items), next |-> i]
    ELSE IF after = "value" THEN [ok |-> FALSE, val |-> PyList(items), next |-> i]
    ELSE LET v == ReadValue(toks, i)
         IN  IF v.ok THEN ReadItems(toks, v.next, Append(items, v.val), "value")
             ELSE [ok |-> FALSE, val |-> PyList(items), next |-> i]

WellFormedList(toks) ==
    /\ toks # <<>>
    /\ toks[1].type = "["
    /\ ReadValue(toks, 1).ok
    /\ ReadValue(toks, 1).next = Len(toks) + 1

----------------------------------------------------------------------------
(* Single assignments: the text `key = value` for sample keys and scalars *)

SampleKeys ==
    {<<"a">>,
     <<"_", "k", "1">>,
     <<"T", "r">>,
     <<"t", "r", "u", "e", "x">>,
     <<"x", "_", "f", "a", "l", "s", "e">>}

\* the text of a scalar and the value it denotes
SampleScalars ==
    {<<<<"1">>, PyInt(1)>>,
     <<<<"0", "0", "7">>, PyInt(7)>>,
     <<<<"1", ".", "5">>, PyFloat(15, 1)>>,
     <<<<"2", ".", "5", "0">>, PyFloat(25, 1)>>,
     <<<<"t", "r", "u", "e">>, PyBool(TRUE)>>,
     <<<<"f", "a", "l", "s", "e">>, PyBool(FALSE)>>,
     <<<<"\"", "h", "i", "\"">>, PyStr(<<"h", "i">>)>>,
     <<<<"\"", "a", "\\", "t", "b", "\"">>, PyStr(<<"a", "\t", "b">>)>>,
     <<<<"\"", "\"">>, PyStr(<<>>)>>,
     <<<<"2", "0", "2", "0", "-", "0", "2", "-", "2", "9", "T", "2", "3", ":", "5", "9", ":", "5", "8", "Z">>, PyDatetime(2020, 2, 29, 23, 59, 58, 0)>>,
     <<<<"1", "9", "9", "9", "-", "1", "2", "-", "3", "1", "T", "0", "0", ":", "0", "0", ":", "0", "0", "+", "0", "5", ":", "3", "0">>, PyDatetime(1999, 12, 31, 0, 0, 0, 330)>>,
     <<<<"2", "0", "0", "1", "-", "0", "1", "-", "0", "1", "T", "1", "2", ":", "0", "0", ":", "0", "0", "-", "0", "8", "0", "0">>, PyDatetime(2001, 1, 1, 12, 0, 0, -480)>>}

Separators == {<<>>, <<" ">>}

AssignCases ==
    {[key |-> key, before |-> b, after |-> a, scalar |-> sc] :
        key \in SampleKeys, b \in Separators, a \in Separators, sc \in SampleScalars}

\* key = value as text
CaseText(c) == c.key \o c.before \o <<"=">> \o c.after \o c.scalar[1]

InitAssign == InitCall({CaseText(c) : c \in AssignCases})

SpecAssign == InitAssign /\ [][NextText]_vars

----------------------------------------------------------------------------
(* Documents with one comment inserted *)

MaxLines == 2

SampleLines ==
    {<<"a", " ", "=", " ", "1">>,
     <<"a", " ", "=">>,
     <<"1">>,
     <<"[", "s", "]">>,
     <<"b", " ", "=", " ", "[", "1", ",">>,
     <<"2", "]">>,
     <<"b", " ", "=", " ", "\"", "x", "\"">>,
     <<"a", " ", "=", " ", "@">>}

SampleComments ==
    {<<"#">>,
     <<"#", " ", "b", " ", "=", " ", "2">>,
     <<"#", "[", "s", "]", " ", "\"">>}

RECURSIVE JoinLines(_)
JoinLines(ls) ==
    IF ls = <<>> THEN <<>>
    ELSE IF Len(ls) = 1 THEN ls[1]
    ELSE ls[1] \o <<"\n">> \o JoinLines(Tail(ls))

LineDocs == UNION {[1..k -> SampleLines] : k \in 0..MaxLines}

\* the comment put at the end of line i, after the separator
AtEndOfLine(ls, i, sep, comment) == [ls EXCEPT ![i] = @ \o sep \o comment]

\* the comment put on a line of its own, after the first i lines
OnOwnLine(ls, i, comment) ==
    SubSeq(ls, 1, i) \o <<comment>> \o SubSeq(ls, i + 1, Len(ls))

Commented(ls) ==
    {AtEndOfLine(ls, i, sep, c) :
        i \in 1..Len(ls), sep \in Separators, c \in SampleComments}
    \cup {OnOwnLine(ls, i, c) : i \in 0..Len(ls), c \in SampleComments}

\* parse_content is called on a document with a comment; plain is the
\* document without it
InitComment ==
    /\ \E ls \in LineDocs : \E cs \in Commented(ls) :
           /\ plain = JoinLines(ls)
           /\ content = JoinLines(cs)
    /\ returned = <<>>
    /\ lines = <<>>
    /\ line_idx = 0
    /\ scanned = <<>>
    /\ message = NoMessage
    /\ tokens = <<>>
    /\ idx = 0
    /\ pc = "called"
    /\ InitParser

SpecComment == InitComment /\ [][NextText]_vars

----------------------------------------------------------------------------
(* Several calls of parse_content, one after the other *)

MaxCalls == 3

CallTexts ==
    {<<"a", " ", "=", " ", "1">>,
     <<"[", "s", "]", "\n", "a", " ", "=", " ", "[", "1", ",", " ", "2", "]", "\n", "[", "s", ".", "t", "]", "\n", "b", " ", "=", " ", "2">>,
     <<"a", " ", "=", " ", "1", "\n", "[", "a", "]", "\n", "b", " ", "=", " ", "2">>,
     <<"a", " ", "=", " ", "1", " ", "2", "\n", "b", " ", "=">>,
     <<"a", " ", "=", " ", "@">>,
     <<"b", " ", "=", " ", "[", "1">>}

\* parse_content has returned or raised, and is called again
CallAgain(texts) ==
    /\ pc \in {"done", "raised"}
    /\ Len(returned) + 1 < MaxCalls
    /\ returned' = Append(returned, [text |-> content, outcome |-> Outcome])
    /\ content' \in texts
    /\ plain' = content'
    /\ lines' = <<>>
    /\ line_idx' = 0
    /\ scanned' = <<>>
    /\ message' = NoMessage
    /\ tokens' = <<>>
    /\ idx' = 0
    /\ error' = NoError
    /\ pc' = "called"
    /\ UNCHANGED parserVars

NextCalls ==
    \/ NextText
    \/ CallAgain(CallTexts)

InitCalls == InitCall(CallTexts)

SpecCalls == InitCalls /\ [][NextCalls]_vars

----------------------------------------------------------------------------
(* Token streams with commas: tokens a state does not expect *)

MaxStrayTokens == 5

StrayAlphabet ==
    {TokId(<<"a">>), TokLit("="), TokInt(1), TokSection(<<"a">>),
     TokLit("["), TokLit("]"), TokLit(",")}

FeedStray(token) == FeedUpTo(token, MaxStrayTokens)

NextStray ==
    \/ ParseBegin
    \/ \E token \in StrayAlphabet : FeedStray(token)
    \/ FeedEof
    \/ ParseEnd

SpecStray == Init /\ [][NextStray]_vars

----------------------------------------------------------------------------
(* Texts with brackets: the order of the patterns *)

MaxOrderChars == 5

OrderAlphabet == {"a", "[", "]", " ", "="}

InitOrder == InitCall(TextsUpTo(MaxOrderChars, OrderAlphabet))

SpecOrder == InitOrder /\ [][NextText]_vars

----------------------------------------------------------------------------
(* Claims about the parser on token streams, under Spec *)

\* C5: for every sequence of tokens the tokenizer can produce, parse returns
\* a result and never raises: no run of the parser ends in an exception.
ParseNeverRaises == pc # "raised" /\ error = NoError

\* the step commits an assignment that was given no value: BuildValue was
\* entered by the `=` after an id, and the very next token is an id, a
\* section header or eof
EmptyValueCommit ==
    /\ status = "StatusBuildValue"
    /\ Len(fed) >= 2
    /\ fed[Len(fed) - 1].type = "id"
    /\ Last(fed).type = "="
    /\ Len(fed') = Len(fed) + 1
    /\ Last(fed').type \in {"id", "section", "eof"}

\* C7: an assignment that is given no value is dropped, whatever came before
\* it: the step that commits it sets nothing in the pending context and
\* nothing in the result tree, and parsing goes on.
EmptyAssignmentDropped ==
    [][EmptyValueCommit =>
        context' = context /\ result' = result /\ error' = NoError]_vars

----------------------------------------------------------------------------
(* Claims about documents, under SpecDoc *)

Finished == pc \in {"done", "raised"}

\* C2: for every document of assignments and section headers, parse returns
\* a tree in which each assignment sits at the path of the last header before
\* it (the root before the first header) unless a later assignment wrote over
\* it, and in which no value sits anywhere else.
RootThenSection ==
    Finished /\ WellFormed(Doc) =>
        /\ pc = "done"
        /\ \A i \in Assignments(Doc) : Stands(Doc, i) =>
               [path |-> PathOf(Doc, i), val |-> Doc[i].val] \in result
        /\ \A n \in Values(result) : \E i \in Assignments(Doc) :
               n.path = PathOf(Doc, i) /\ n.val = Doc[i].val

\* a section header followed by one or more assignments, and nothing else
HeaderThenAssignments(doc) ==
    /\ WellFormed(doc)
    /\ Len(doc) >= 2
    /\ doc[1].kind = "header"
    /\ \A i \in 2..Len(doc) : doc[i].kind = "assign"

\* the nested mappings result[p1], result[p1][p2], ... of a section path
Chain(parts) == {[path |-> SubSeq(parts, 1, k), val |-> PyDict] : k \in 1..Len(parts)}

\* C3: parsing `[p1.p2...pn]` followed by assignments yields the chain of
\* mappings p1, p1.p2, ..., one per component, with exactly those assignments
\* in the innermost one and nothing else in the tree.
SectionNesting ==
    Finished /\ HeaderThenAssignments(Doc) =>
        /\ pc = "done"
        /\ result = Chain(Components(Doc[1].name))
                    \cup {[path |-> PathOf(Doc, i), val |-> Doc[i].val] :
                              i \in {j \in Assignments(Doc) : Stands(Doc, j)}}

SectionNestingWitness ==
    /\ pc = "done"
    /\ HeaderThenAssignments(Doc)
    /\ Len(Components(Doc[1].name)) = 2
    /\ \E i, j \in Assignments(Doc) : Doc[i].name # Doc[j].name
    /\ Cardinality(result) = 4

\* all assignments of the document are made at one section path: there is no
\* header, or the document starts with a header and every header repeats it
OneSectionPath(doc) ==
    /\ WellFormed(doc)
    /\ \A g, h \in Headers(doc) : doc[g].name = doc[h].name
    /\ Headers(doc) # {} => doc[1].kind = "header"

----------------------------------------------------------------------------
(* Claims about list literals, under SpecList *)

----------------------------------------------------------------------------
(* Claims about single assignments, under SpecAssign *)

\* C1: for every identifier key and every scalar value, parsing the text
\* `key = value` returns exactly the one-entry mapping {key: value}.
ScalarAssignment ==
    \A c \in AssignCases :
        Finished /\ content = CaseText(c) =>
            /\ pc = "done"
            /\ result = {[path |-> <<c.key>>, val |-> c.scalar[2]]}

----------------------------------------------------------------------------
(* Claims about lex errors, under SpecText *)

\* the only character of TextAlphabet that no pattern matches
Unmatchable == "@"

HasUnmatchable == \E i \in 1..Len(content) : content[i] = Unmatchable

FirstUnmatchable ==
    CHOOSE i \in 1..Len(content) :
        /\ content[i] = Unmatchable
        /\ \A j \in 1..(i - 1) : content[j] # Unmatchable

LineBreaksBefore(i) == {j \in 1..(i - 1) : content[j] = "\n"}

\* the position of content[i]: its line, counted from 1, and its offset in
\* that line, counted from 0 as the code counts offsets
LineOf(i) == 1 + Cardinality(LineBreaksBefore(i))

OffsetOf(i) ==
    IF LineBreaksBefore(i) = {} THEN i - 1
    ELSE i - 1 - (CHOOSE j \in LineBreaksBefore(i) :
                      \A k \in LineBreaksBefore(i) : k <= j)

LexErrorAbortsParse ==
    HasUnmatchable =>
        /\ pc \in {"called", "tokenize", "raised"}
        /\ fed = <<>>
        /\ tokens = <<>>
        /\ status_history = <<>>
        /\ result = {}
        /\ pc = "raised" => error = "LexError"

\* the last of several lines fails, after tokens of earlier lines were read
LexErrorAbortsParseWitness ==
    /\ pc = "raised"
    /\ error = "LexError"
    /\ Len(lines) >= 2
    /\ message.line_no = Len(lines)
    /\ scanned # <<>>
    /\ fed = <<>>

----------------------------------------------------------------------------
(* Claims about comments, under SpecComment *)

\* C8: a document with a comment inserted at the end of a line or on a line
\* of its own gives the caller what the document without the comment gives,
\* and no comment token is ever fed to a parser state.
CommentsIgnored ==
    /\ \A i \in 1..Len(fed) : fed[i].type # "comment"
    /\ Finished => Outcome = parse_content(plain)

\* a comment between `key =` and the value on the next line, parsed to the end
CommentsIgnoredWitness ==
    /\ pc = "done"
    /\ result # {}
    /\ \E i \in 2..(Len(tokens) - 1) :
           /\ tokens[i].type = "comment"
           /\ tokens[i - 1].type = "="
           /\ tokens[i + 1].type \in ScalarTypes
           /\ tokens[i + 1].row_no > tokens[i].row_no

----------------------------------------------------------------------------
(* Claims about repeated calls, under SpecCalls *)

\* C11: a call of parse_content gives what every earlier call on the same
\* text gave, whatever texts were parsed in between: nothing is carried
\* from one call to the next.
SameTextSameResult ==
    pc \in {"done", "raised"} =>
        \A i \in 1..Len(returned) :
            returned[i].text = content => returned[i].outcome = Outcome

\* the same text parsed a second time, after a different text that left a
\* result of its own
SameTextSameResultWitness ==
    /\ pc = "done"
    /\ result # {}
    /\ Len(returned) = 2
    /\ returned[1].text = content
    /\ returned[2].text # content
    /\ returned[2].outcome.result # {}
    /\ returned[2].outcome.result # result

----------------------------------------------------------------------------
(* Claims about the end of parse, under Spec *)

\* C12: when parse returns, the status stack is empty: every state that was
\* still on it after the eof token has been exited.
StatusStackEmptied == pc = "done" => status_history = <<>>

----------------------------------------------------------------------------
(* Claims about tokens a state does not expect, under SpecStray *)

\* a token is handed to the current state's feed in this step
TokenFed == Len(fed') = Len(fed) + 1

ParserStacksUnchanged ==
    UNCHANGED <<status, status_history, section_history, value_stack,
                token_history, context, result>>

\* the tokens the claim calls not expected, by state
Unexpected(st, type) ==
    CASE st = "StatusBuildValue" ->
             type \notin ScalarTypes \cup {"[", "id", "section", "eof"}
      [] st = "StatusBuildSection" -> type \notin {"id", "=", "section"}
      [] st = "StatusBuildList" -> type \notin ScalarTypes \cup {",", "[", "]"}
      [] OTHER -> FALSE

\* C13 as stated: a token not expected by the current state (in BuildValue
\* `]`, `,` and `=` among them) changes no stack, nor the pending context,
\* nor the result tree.
UnexpectedTokenDiscarded ==
    [][TokenFed /\ Unexpected(status, Last(fed').type)
           => ParserStacksUnchanged]_vars

\* C13 amended: as stated, except that `]` is expected in BuildValue (it
\* exits BuildValue as `eof` does); in BuildValue the tokens discarded
\* without effect are `,` and `=`.
UnexpectedTokenDiscardedButBracket ==
    [][(/\ TokenFed
        /\ Unexpected(status, Last(fed').type)
        /\ ~(status = "StatusBuildValue" /\ Last(fed').type = "]"))
           => ParserStacksUnchanged]_vars

\* tokens that were discarded in each state: `=` in an open list whose
\* element is kept, after `,` was discarded in BuildValue
UnexpectedTokenDiscardedWitness ==
    /\ status = "StatusBuildList"
    /\ Len(fed) >= 4
    /\ Last(fed).type = "="
    /\ fed[Len(fed) - 1].type = "int"
    /\ \E i \in 2..Len(fed) : fed[i].type = "," /\ fed[i - 1].type = "="
    /\ value_stack # <<>>
    /\ Last(value_stack).type = "int"

----------------------------------------------------------------------------
(* Claims about the order of the patterns, under SpecOrder *)

\* the first pattern, in the order of PATTERNS, that matches at the offset
FirstMatching(line, offset) ==
    PatternTypes[CHOOSE i \in 1..Len(PatternTypes) :
                     /\ Match(PatternTypes[i], line, offset) > 0
                     /\ \A j \in 1..(i - 1) : Match(PatternTypes[j], line, offset) = 0]

\* the pattern a token was made by
PatternOf(token) ==
    IF token.type \in {",", "[", "]", "="} THEN "literal" ELSE token.type

\* C14: every token the tokenizer emits was made by the first pattern, in
\* the fixed order, that matches at the token's offset in its line, whatever
\* pattern matched the token before it.
FirstPatternWins ==
    \A i \in 1..Len(scanned) :
        PatternOf(scanned[i]) =
            FirstMatching(Strip(lines[scanned[i].row_no]), scanned[i].col_no)

----------------------------------------------------------------------------
(* Claims about the pending context, under Spec *)

\* this step feeds BuildValue a token that makes it exit with a value to assign
ValueCommit ==
    /\ TokenFed
    /\ status = "StatusBuildValue"
    /\ Last(fed').type \in {"id", "]", "section", "eof"}
    /\ value_stack # <<>>

\* the path of the section that is open
OpenSectionPath ==
    IF section_name = None \/ section_name = <<>> THEN <<>>
    ELSE Components(section_name)

\* C15: every assignment committed by a BuildValue exit is merged into the
\* result tree under the section open when it is made, and when parse returns
\* the pending context is empty, whatever state was on top at the end of the
\* input.
PendingMerged ==
    [][/\ ValueCommit /\ pc' # "raised" =>
              /\ [path |-> Append(OpenSectionPath, var),
                  val |-> Last(value_stack).val] \in result'
              /\ context' = <<>>
       /\ pc' = "done" => context' = <<>>]_vars

\* parse has returned after an input that ended in BuildValue, inside a
\* section: the assignment is in the mapping of that section
PendingMergedWitness ==
    /\ pc = "done"
    /\ context = <<>>
    /\ Len(tokens) >= 4
    /\ tokens[1].type = "section"
    /\ Last(tokens).type = "int"
    /\ tokens[Len(tokens) - 1].type = "="
    /\ \E n \in result : Len(n.path) >= 2 /\ n.val = PyInt(1)

\* the mappings missing along the path of the open section
MissingMappings ==
    {[path |-> SubSeq(OpenSectionPath, 1, i), val |-> PyDict] :
        i \in {j \in 1..Len(OpenSectionPath) :
                   NodeAt(result, SubSeq(OpenSectionPath, 1, j)) = {}}}

\* C16: merging the pending assignment var = value of the open section with
\* path p creates the mappings missing along p, sets p.var, and leaves every
\* other entry of the result tree as it was.
MergeAdditive ==
    [][ValueCommit =>
           result' = {n \in result : n.path # Append(OpenSectionPath, var)}
                     \cup MissingMappings
                     \cup {[path |-> Append(OpenSectionPath, var),
                            val |-> Last(value_stack).val]}]_vars

\* C17 as stated: the result tree is modified only when a section header is
\* entered or when parsing ends (the eof token, the final exit); a feed of
\* any other token leaves it as it was.
MergedOnlyAtHeaderOrEnd ==
    [][TokenFed /\ Last(fed').type \notin {"section", "eof"} =>
           result' = result]_vars

\* C17 amended: an assignment is merged into the result tree in the feed
\* that commits it, whatever token makes BuildValue exit; the result tree is
\* modified by no other step, and no assignment is pending between two feeds.
MergedAtEveryCommit ==
    [][/\ result' # result => ValueCommit
       /\ pc' # "raised" => context' = <<>>]_vars

\* a result that holds an assignment while the loop of parse is running and
\* neither a header nor the eof token has been fed
MergedAtEveryCommitWitness ==
    /\ pc = "loop"
    /\ result # {}
    /\ context = <<>>
    /\ \A i \in 1..Len(fed) : fed[i].type \notin {"section", "eof"}

----------------------------------------------------------------------------
(* Claims about the stacks of the parser, under Spec *)

\* parse is between two feeds
BetweenFeeds == pc = "loop"

\* C18: between two feeds the value stack is empty whenever the current state
\* is BuildSection: the commit of an assignment leaves no value behind.
NoValueLeftBehind ==
    BetweenFeeds /\ status = "StatusBuildSection" => value_stack = <<>>

\* C19: from the first feed until the final exit of parse the status stack
\* is not empty, its bottom entry is BuildSection, a BuildValue entry sits
\* directly above a BuildSection entry, a BuildList entry above a BuildValue
\* or a BuildList entry, and the current state is the top entry; no exit,
\* the final one included, pops an empty stack.
StatusStackWellShaped ==
    /\ pc \in {"loop", "eof"} =>
           /\ status_history # <<>>
           /\ status_history[1] = "StatusBuildSection"
           /\ status = Last(status_history)
           /\ \A i \in 2..Len(status_history) :
                  /\ status_history[i] = "StatusBuildValue" =>
                         status_history[i - 1] = "StatusBuildSection"
                  /\ status_history[i] = "StatusBuildList" =>
                         status_history[i - 1] \in {"StatusBuildValue", "StatusBuildList"}
    /\ error # "IndexError"

\* an inner list has been closed inside a list opened in a section: the outer
\* BuildList is resumed above BuildValue and two BuildSection entries
StatusStackWellShapedWitness ==
    /\ pc = "loop"
    /\ fed # <<>>
    /\ Last(fed).type = "]"
    /\ status_history = <<"StatusBuildSection", "StatusBuildSection",
                          "StatusBuildValue", "StatusBuildList">>

\* the `[` sentinels on a value stack, the BuildList entries on a status stack
Sentinels(stack) == {i \in 1..Len(stack) : stack[i].type = "["}

ListEntries(stack) == {i \in 1..Len(stack) : stack[i] = "StatusBuildList"}

\* C20: between two feeds the value stack holds as many `[` sentinels as the
\* status stack holds BuildList entries; combine_values never pops an empty
\* value stack, and a BuildValue exit never assigns a sentinel.
SentinelsPaired ==
    [][/\ pc' \in {"loop", "eof"} =>
              Cardinality(Sentinels(value_stack')) =
                  Cardinality(ListEntries(status_history'))
       /\ error' # "IndexError"
       /\ ValueCommit => Last(value_stack).type # "["]_vars

\* a second inner list is open after the first one was closed: two sentinels
\* with the closed list between them, two BuildList entries
SentinelsPairedWitness ==
    /\ pc = "loop"
    /\ Cardinality(Sentinels(value_stack)) = 2
    /\ Cardinality(ListEntries(status_history)) = 2
    /\ \E i \in 1..Len(value_stack) : value_stack[i].type = "list"

====
